---- MODULE Spec2Model ----
(***************************************************************************)
(* The observer core of the two MVC demonstration programs                 *)
(* (src/mvc/useful-mvc.py, controller-mediated, and                        *)
(* src/mvc/useful-mvc-noc.py, no controller): Observable, Score, User,     *)
(* the controllers and the widget handlers that mutate the models.         *)
(*                                                                         *)
(* Everything runs on one thread.  A top-level operation (a call made by   *)
(* the event loop or by a client of the classes) starts when pc = "idle";  *)
(* when it reaches notify_observers the for loop over self._observers is   *)
(* taken one iteration per step (pc = "notify"), and no other operation    *)
(* starts before the loop has returned.                                    *)
(***************************************************************************)
EXTENDS Integers, Sequences, FiniteSets

\* ------------------------------------------------------------- bounds
\* longest subscriber sequence explored
MaxObservers == 2
\* most increments, and most decrements, after one seeding of the score
MaxOps == 1
\* longest subscriber sequence explored when only the Observable is exercised
MaxEntries == 3

\* ------------------------------------------------------- program data
\* Score(3) in App.__init__
SeedValue == 3

Variants == {"mvc", "noc"}
Subjects == {"Score", "User"}
\* observer callables handed to subscribe
Callbacks == {"A", "B"}
\* the widgets that show the score in a label and subscribe when built
LabelViews == {"ScoreViewWidget", "ScoreUpdateWidget"}
\* client callbacks that call back into their subject: Once unsubscribes
\* itself, Ping subscribes Pong and Pong subscribes Ping
Reentrant == {"Once", "Ping", "Pong"}
\* every callable that can sit in a subscriber sequence
Observers == Callbacks \cup LabelViews \cup Reentrant
\* extra positional arguments of a direct notify_observers call
ArgLists == {<<>>, <<"x">>}
\* integers assigned directly through the value setter
Assignable == {7, 8}
Digits == <<"0", "1", "2", "3", "4", "5", "6", "7", "8", "9">>
\* strings typed into the user entries
Strings == {"a", "b"}
\* a name-mangled attribute that no assignment has created yet
Unset == "<unset>"

\* texts left in the score entry when it loses focus
Texts ==
    { <<>>, <<" ">>, <<"7">>, <<" ", "8", " ">>, <<"-", "4">>, <<"+", "7">>,
      <<"1", "_", "2">>, <<"0", "8">>, <<"1", ".", "5">>, <<"7", ".">>,
      <<"a", "b", "c">>, <<"-">>, <<"-", "-", "4">>, <<"4", "-">>,
      <<"_", "7">>, <<"1", "_", "_", "2">>, <<"1", " ", "2">>,
      <<"-", " ", "4">> }

\* ------------------------------------------------- python values
\* a Python object held by Score.__value: its type and its payload
PyInt(n) == [type |-> "int", v |-> n]

IsDigit(c) == \E d \in 1..10 : Digits[d] = c
DigitValue(c) == (CHOOSE d \in 1..10 : Digits[d] = c) - 1

RECURSIVE lstrip(_)
lstrip(t) == IF t # <<>> /\ Head(t) = " " THEN lstrip(Tail(t)) ELSE t

RECURSIVE rstrip(_)
rstrip(t) ==
    IF t # <<>> /\ t[Len(t)] = " " THEN rstrip(SubSeq(t, 1, Len(t) - 1)) ELSE t

\* str.strip() as int() applies it to its argument
strip(t) == rstrip(lstrip(t))

\* the digit part of an integer literal: digits, single underscores between them
ValidDigits(t) ==
    /\ t # <<>>
    /\ IsDigit(t[1]) /\ IsDigit(t[Len(t)])
    /\ \A i \in 1..Len(t) : IsDigit(t[i]) \/ t[i] = "_"
    /\ \A i \in 1..(Len(t) - 1) : ~(t[i] = "_" /\ t[i + 1] = "_")

RECURSIVE DigitsValue(_, _)
DigitsValue(t, acc) ==
    IF t = <<>> THEN acc
    ELSE IF Head(t) = "_" THEN DigitsValue(Tail(t), acc)
    ELSE DigitsValue(Tail(t), 10 * acc + DigitValue(Head(t)))

\* a variant of int that reads a trailing "." as Python's float() does
int_accepts_float(text) ==
    LET s == strip(text)
        neg == s # <<>> /\ s[1] = "-"
        signed == s # <<>> /\ s[1] \in {"-", "+"}
        body == IF signed THEN Tail(s) ELSE s
        dot == body # <<>> /\ body[Len(body)] = "."
        digs == IF dot THEN SubSeq(body, 1, Len(body) - 1) ELSE body
        n == DigitsValue(digs, 0)
    IN  IF ValidDigits(digs)
        THEN [raised |-> "none",
              val |-> IF dot THEN [type |-> "float", v |-> n]
                      ELSE PyInt(IF neg THEN 0 - n ELSE n)]
        ELSE [raised |-> "ValueError", val |-> PyInt(0)]

\* int(text) of a str: the int it denotes, or ValueError
int(text) ==
    LET s == strip(text)
        neg == s # <<>> /\ s[1] = "-"
        signed == s # <<>> /\ s[1] \in {"-", "+"}
        body == IF signed THEN Tail(s) ELSE s
        n == DigitsValue(body, 0)
    IN  IF ValidDigits(body)
        THEN [raised |-> "none", val |-> PyInt(IF neg THEN 0 - n ELSE n)]
        ELSE [raised |-> "ValueError", val |-> PyInt(0)]

\* the decimal digits of n >= 0
RECURSIVE DigitsOf(_)
DigitsOf(n) ==
    IF n < 10 THEN <<Digits[n + 1]>> ELSE Append(DigitsOf(n \div 10), Digits[(n % 10) + 1])

\* str(v) of an int: a minus sign for a negative value, then the digits
str(v) == IF v.v < 0 THEN <<"-">> \o DigitsOf(0 - v.v) ELSE DigitsOf(v.v)

\* ------------------------------------------------------------- state
VARIABLES
    variant,     \* which of the two programs runs
    observers,   \* self._observers of each subject
    value,       \* Score.__value
    firstname,   \* User.__firstname
    lastname,    \* User.__lastname
    email,       \* User.__email
    views,       \* score_label of each label widget: built or not, and its text
    pc,          \* "idle", or "notify" inside notify_observers' loop
    frame,       \* the running notify_observers call: self, args, iterator index
    op,          \* history: the top-level operation last started
    trace,       \* history: what that operation has done so far, in order
    run,         \* history: increments, decrements and cycles since the score was seeded
    subs,        \* history: the subscribe/unsubscribe calls clients made on each subject
    assigned     \* history: the value last handed to each User setter

model == <<value, firstname, lastname, email>>
vars == <<variant, observers, value, firstname, lastname, email, views, pc, frame,
          op, trace, run, subs, assigned>>

\* a widget that App.__init__ has not built yet
NoView == [built |-> FALSE, text |-> <<>>]

NoFrame == [self |-> "none", args |-> <<>>, i |-> 0]

\* the fields of a subject as a client reading it sees them
Seen(self, val, f, l, e) == IF self = "Score" THEN <<val>> ELSE <<f, l, e>>

Event(ev, who, self, args, seen) ==
    [ev |-> ev, observer |-> who, subject |-> self, args |-> args, seen |-> seen]

Op(name, self, arg, pre) ==
    [name |-> name, self |-> self, arg |-> arg, pre |-> pre,
     raised |-> "none", ret |-> "pending"]

\* the count restarts when the score is given a value outright
Seeded(n) == [seed |-> n, incs |-> 0, decs |-> 0, cycles |-> 0]

NoSubs == [seq |-> <<>>, only |-> TRUE,
           balance |-> [c \in Observers |-> 0], removed |-> {}]

Init ==
    /\ variant \in Variants
    /\ observers = [s \in Subjects |-> <<>>]
    /\ value = PyInt(SeedValue)
    /\ firstname = Unset /\ lastname = Unset /\ email = Unset
    /\ views = [w \in LabelViews |-> NoView]
    /\ pc = "idle"
    /\ frame = NoFrame
    /\ op = [Op("__init__", "Score", SeedValue, 0) EXCEPT !.ret = "None"]
    /\ trace = <<Event("store", "-", "Score", <<>>, <<PyInt(SeedValue)>>),
                 Event("print", "-", "Score", <<>>, <<PyInt(SeedValue)>>),
                 Event("notify", "-", "Score", <<>>, <<PyInt(SeedValue)>>)>>
    /\ run = Seeded(SeedValue)
    /\ subs = [s \in Subjects |-> NoSubs]
    /\ assigned = [firstname |-> Unset, lastname |-> Unset, email |-> Unset]

\* -------------------------------------------------------- Observable
\* a subscribe that skips an observer already in the list
Observable_subscribe_unique(obs, observer) ==
    IF \E i \in 1..Len(obs) : obs[i] = observer THEN obs ELSE Append(obs, observer)

\* self._observers.append(observer)
Observable_subscribe(obs, observer) == Append(obs, observer)

\* index of the first entry equal to observer (list.remove scans from the front)
FirstIndex(obs, observer) ==
    CHOOSE i \in 1..Len(obs) :
        obs[i] = observer /\ \A j \in 1..(i - 1) : obs[j] # observer

\* a removal that deletes the newest entry when observer is subscribed
\* (self._observers.pop() in place of remove)
Observable_unsubscribe_last(obs, observer) ==
    IF \E i \in 1..Len(obs) : obs[i] = observer
    THEN [raised |-> "none", list |-> SubSeq(obs, 1, Len(obs) - 1)]
    ELSE [raised |-> "ValueError", list |-> obs]

\* a removal that ignores a missing observer (as set.discard does)
Observable_unsubscribe_discard(obs, observer) ==
    IF \E i \in 1..Len(obs) : obs[i] = observer
    THEN LET k == FirstIndex(obs, observer)
         IN  [raised |-> "none",
              list |-> SubSeq(obs, 1, k - 1) \o SubSeq(obs, k + 1, Len(obs))]
    ELSE [raised |-> "none", list |-> obs]

\* a removal that filters out every entry equal to observer
Observable_unsubscribe_all(obs, observer) ==
    IF \E i \in 1..Len(obs) : obs[i] = observer
    THEN [raised |-> "none", list |-> SelectSeq(obs, LAMBDA x : x # observer)]
    ELSE [raised |-> "ValueError", list |-> obs]

\* self._observers.remove(observer): the first match is deleted, or ValueError
Observable_unsubscribe(obs, observer) ==
    IF \E i \in 1..Len(obs) : obs[i] = observer
    THEN LET k == FirstIndex(obs, observer)
         IN  [raised |-> "none",
              list |-> SubSeq(obs, 1, k - 1) \o SubSeq(obs, k + 1, Len(obs))]
    ELSE [raised |-> "ValueError", list |-> obs]

\* the for loop's iterator: is there an entry at its index, and which
HasNext(obs, i) == i < Len(obs)
\* an iterator that walks the list from its end (reversed(self._observers))
NextObserver_reversed(obs, i) == obs[Len(obs) - i]
NextObserver(obs, i) == obs[i + 1]

\* what the return statement (or falling off the end) of an operation yields
ReturnValue(name) == IF name = "on_score_entry_changed" THEN "True" ELSE "None"

\* entry of self.notify_observers(*args), after the events in sofar
EnterNotify(self, args, sofar, seen) ==
    /\ pc' = "notify"
    /\ frame' = [self |-> self, args |-> args, i |-> 0]
    /\ trace' = Append(sofar, Event("notify", "-", self, args, seen))

\* subject.subscribe(observer), explored while the sequence is shorter than cap
SubscribeUpTo(self, observer, cap) ==
    /\ pc = "idle"
    /\ Len(observers[self]) < cap
    /\ observers' = [observers EXCEPT ![self] = Observable_subscribe(@, observer)]
    /\ op' = [Op("subscribe", self, observer, observers[self]) EXCEPT !.ret = "None"]
    /\ trace' = <<>>
    /\ subs' = [subs EXCEPT ![self] =
                  [seq |-> IF @.only THEN Append(@.seq, observer) ELSE <<>>,
                   only |-> @.only,
                   balance |-> [@.balance EXCEPT ![observer] = @ + 1],
                   removed |-> @.removed \ {observer}]]
    /\ UNCHANGED <<variant, views, model, pc, frame, run, assigned>>

\* subject.subscribe(observer), called by a client or a widget constructor
Subscribe(self, observer) == SubscribeUpTo(self, observer, MaxObservers)

\* subject.unsubscribe(observer), called by a client
Unsubscribe(self, observer) ==
    LET r == Observable_unsubscribe(observers[self], observer)
    IN  /\ pc = "idle"
        /\ observers' = [observers EXCEPT ![self] = r.list]
        /\ op' = [Op("unsubscribe", self, observer,
                      [observers |-> observers[self], model |-> model])
                    EXCEPT !.raised = r.raised,
                           !.ret = IF r.raised = "none" THEN "None" ELSE "raise"]
        /\ trace' = <<>>
        /\ subs' = IF r.raised = "none"
                   THEN [subs EXCEPT ![self] =
                           [seq |-> <<>>,
                            only |-> FALSE,
                            balance |-> [@.balance EXCEPT ![observer] = @ - 1],
                            removed |-> @.removed \cup {observer}]]
                   ELSE subs
        /\ UNCHANGED <<variant, views, model, pc, frame, run, assigned>>

\* subject.notify_observers(*args), called directly by a client
NotifyObservers(self, args) ==
    /\ pc = "idle"
    /\ EnterNotify(self, args, <<>>, Seen(self, value, firstname, lastname, email))
    /\ op' = Op("notify_observers", self, args, observers[self])
    /\ UNCHANGED <<variant, views, observers, model, run, subs, assigned>>

\* a loop that prunes each observer once it has been called
NotifyStep_pruning ==
    /\ pc = "notify"
    /\ HasNext(observers[frame.self], frame.i)
    /\ observers' = [observers EXCEPT ![frame.self] =
                       SubSeq(@, 1, frame.i) \o SubSeq(@, frame.i + 2, Len(@))]
    /\ trace' = Append(trace,
                       Event("call", NextObserver(observers[frame.self], frame.i),
                             frame.self, frame.args,
                             Seen(frame.self, value, firstname, lastname, email)))
    /\ UNCHANGED <<variant, views, model, pc, frame, op, run, subs, assigned>>

\* a label widget that ignores the notification
on_model_changed_ignored(view, v) == view

\* on_model_changed of a label widget: self.score_label.config(text=str(model.value))
on_model_changed(view, v) == [view EXCEPT !.text = str(v)]

\* the subscriber sequence obs once callee, invoked by the loop, has returned
CallbackSubscribers(callee, obs) ==
    CASE callee = "Once" -> Observable_unsubscribe(obs, "Once").list
      [] callee = "Ping" -> Observable_subscribe(obs, "Pong")
      [] callee = "Pong" -> Observable_subscribe(obs, "Ping")
      [] OTHER -> obs

\* what callee did to its subject while it ran, as history events
CallbackEvents(callee, self) ==
    CASE callee = "Once" -> <<Event("unsubscribe", callee, self, <<"Once">>, <<>>)>>
      [] callee = "Ping" -> <<Event("subscribe", callee, self, <<"Pong">>, <<>>)>>
      [] callee = "Pong" -> <<Event("subscribe", callee, self, <<"Ping">>, <<>>)>>
      [] OTHER -> <<>>

\* one iteration of "for observer in self._observers: observer(self, *args)".
\* The list iterator keeps an index into the live list.  Past MaxEntries
\* entries the model keeps a window on the list: the oldest entry, which the
\* iterator has passed, is forgotten and the history stops growing; the
\* entries ahead of the iterator are kept exactly.
NotifyStep ==
    /\ pc = "notify"
    /\ HasNext(observers[frame.self], frame.i)
    /\ LET callee == NextObserver(observers[frame.self], frame.i)
           after == CallbackSubscribers(callee, observers[frame.self])
           slide == Len(after) > MaxEntries
       IN  /\ observers' = [observers EXCEPT ![frame.self] =
                              IF slide THEN Tail(after) ELSE after]
           /\ frame' = [frame EXCEPT !.i = IF slide THEN @ ELSE @ + 1]
           /\ views' = IF callee \in LabelViews
                       THEN [views EXCEPT ![callee] = on_model_changed(@, value)]
                       ELSE views
           /\ trace' = IF slide
                       THEN trace
                       ELSE Append(trace,
                                   Event("call", callee, frame.self, frame.args,
                                         Seen(frame.self, value, firstname, lastname, email)))
                            \o CallbackEvents(callee, frame.self)
    /\ UNCHANGED <<variant, model, pc, op, run, subs, assigned>>

\* the cycles counted in run: those run by increments and decrements
CountCycle(r, name) ==
    IF name \in {"increment", "decrement"}
    THEN [r EXCEPT !.cycles = @ + 1]
    ELSE r

\* the loop is exhausted: notify_observers returns, and so does the operation
NotifyReturn ==
    /\ pc = "notify"
    /\ ~HasNext(observers[frame.self], frame.i)
    /\ pc' = "idle"
    /\ frame' = NoFrame
    /\ op' = [op EXCEPT !.ret = ReturnValue(op.name)]
    /\ run' = IF frame.self = "Score" THEN CountCycle(run, op.name) ELSE run
    /\ UNCHANGED <<variant, views, observers, model, trace, subs, assigned>>

\* -------------------------------------------------------------- Score
\* the value property read by a client: return self.__value
Score_value == value

\* a setter that notifies only when the value differs from the stored one
Score_value_setter_if_changed(new) ==
    IF new = value
    THEN /\ value' = new
         /\ trace' = <<Event("store", "-", "Score", <<>>, <<new>>),
                       Event("print", "-", "Score", <<>>, <<new>>)>>
         /\ UNCHANGED <<pc, frame>>
    ELSE /\ value' = new
         /\ EnterNotify("Score", <<>>,
                        <<Event("store", "-", "Score", <<>>, <<new>>),
                          Event("print", "-", "Score", <<>>, <<new>>)>>,
                        <<new>>)

\* a setter that prints the log line before it stores the value
Score_value_setter_log_first(new) ==
    /\ value' = new
    /\ EnterNotify("Score", <<>>,
                   <<Event("print", "-", "Score", <<>>, <<new>>),
                     Event("store", "-", "Score", <<>>, <<new>>)>>,
                   <<new>>)

\* the body of the value setter: store, print, notify_observers()
Score_value_setter(new) ==
    /\ value' = new
    /\ EnterNotify("Score", <<>>,
                   <<Event("store", "-", "Score", <<>>, <<new>>),
                     Event("print", "-", "Score", <<>>, <<new>>)>>,
                   <<new>>)

\* score.value = n, written by a client of the model
AssignValue(n) ==
    /\ pc = "idle"
    /\ Score_value_setter(PyInt(n))
    /\ op' = Op("value=", "Score", n, value = PyInt(n))
    /\ run' = Seeded(n)
    /\ UNCHANGED <<variant, views, observers, firstname, lastname, email, subs, assigned>>

\* self.model.value += 1
PlusOne(v) == PyInt(v.v + 1)
\* a decrement pasted from increment without changing the operator
MinusOne_adds(v) == PyInt(v.v + 1)
\* self.model.value -= 1
MinusOne(v) == PyInt(v.v - 1)

Increment ==
    /\ pc = "idle"
    /\ run.incs < MaxOps
    /\ Score_value_setter(PlusOne(value))
    /\ op' = Op("increment", "Score", 0, value.v)
    /\ run' = [run EXCEPT !.incs = @ + 1]
    /\ UNCHANGED <<variant, views, observers, firstname, lastname, email, subs, assigned>>

Decrement ==
    /\ pc = "idle"
    /\ run.decs < MaxOps
    /\ Score_value_setter(MinusOne(value))
    /\ op' = Op("decrement", "Score", 0, value.v)
    /\ run' = [run EXCEPT !.decs = @ + 1]
    /\ UNCHANGED <<variant, views, observers, firstname, lastname, email, subs, assigned>>

\* the same two handlers in the program without controllers, where the widget
\* holds the model: self.model.value += 1 and self.model.value -= 1
WidgetIncrement ==
    /\ pc = "idle"
    /\ run.incs < MaxOps
    /\ Score_value_setter(PyInt(Score_value.v + 1))
    /\ op' = Op("increment", "Score", 0, value.v)
    /\ run' = [run EXCEPT !.incs = @ + 1]
    /\ UNCHANGED <<variant, views, observers, firstname, lastname, email, subs, assigned>>

WidgetDecrement ==
    /\ pc = "idle"
    /\ run.decs < MaxOps
    /\ Score_value_setter(PyInt(Score_value.v - 1))
    /\ op' = Op("decrement", "Score", 0, value.v)
    /\ run' = [run EXCEPT !.decs = @ + 1]
    /\ UNCHANGED <<variant, views, observers, firstname, lastname, email, subs, assigned>>

\* ScoreUpdaterWidget.increment -> ScoreController.increment
ScoreController_increment == variant = "mvc" /\ Increment
\* ScoreUpdaterWidget.decrement -> ScoreController.decrement
ScoreController_decrement == variant = "mvc" /\ Decrement
\* ScoreUpdateWidget.increment of the program without controllers
ScoreUpdateWidget_increment == variant = "noc" /\ WidgetIncrement
\* ScoreUpdateWidget.decrement of the program without controllers
ScoreUpdateWidget_decrement == variant = "noc" /\ WidgetDecrement

\* a controller that validates the new value by clamping it at zero
ScoreController_try_change_value_clamped(new_value) ==
    Score_value_setter(IF new_value.v < 0 THEN PyInt(0) ELSE new_value)

\* ScoreController.try_change_value: self.model.value = new_value
ScoreController_try_change_value(new_value) == Score_value_setter(new_value)

\* a handler whose except clause falls back to a score of 0
on_score_entry_changed_default_zero(text) ==
    LET r == int(text)
        new == IF r.raised = "none" THEN r.val ELSE PyInt(0)
    IN  /\ pc = "idle"
        /\ Score_value_setter(new)
        /\ op' = Op("on_score_entry_changed", "Score", text,
                    IF r.raised = "none" THEN 0 ELSE value)
        /\ run' = Seeded(new.v)
        /\ UNCHANGED <<variant, views, observers, firstname, lastname, email, subs, assigned>>

\* ScoreEditWidget.on_score_entry_changed of program p with text in the
\* entry: the try block (int, then the setter through try_change_value or
\* directly), the except ValueError: pass, and return True
on_score_entry_changed_of(p, text) ==
    LET r == int(text)
    IN  /\ pc = "idle"
        /\ IF r.raised = "none"
           THEN /\ IF p = "mvc"
                   THEN ScoreController_try_change_value(r.val)
                   ELSE Score_value_setter(r.val)
                /\ op' = Op("on_score_entry_changed", "Score", text, 0)
                /\ run' = Seeded(r.val.v)
           ELSE /\ op' = [Op("on_score_entry_changed", "Score", text, value)
                            EXCEPT !.ret = "True"]
                /\ trace' = <<>>
                /\ UNCHANGED <<value, pc, frame, run>>
        /\ UNCHANGED <<variant, views, observers, firstname, lastname, email, subs, assigned>>

\* the focus-out handler of the program that runs
on_score_entry_changed(text) == on_score_entry_changed_of(variant, text)

\* the constructor of label widget w: self.model.subscribe(self.on_model_changed),
\* then score_label = ttk.Label(self, text=str(self.model.value))
LabelView_init(w) ==
    /\ pc = "idle"
    /\ ~views[w].built
    /\ Len(observers["Score"]) < MaxObservers
    /\ observers' = [observers EXCEPT !["Score"] = Observable_subscribe(@, w)]
    /\ views' = [views EXCEPT ![w] = [built |-> TRUE, text |-> str(Score_value)]]
    /\ op' = [Op("widget.__init__", "Score", w, observers["Score"]) EXCEPT !.ret = "None"]
    /\ trace' = <<>>
    /\ subs' = [subs EXCEPT !["Score"] =
                  [seq |-> IF @.only THEN Append(@.seq, w) ELSE <<>>,
                   only |-> @.only,
                   balance |-> [@.balance EXCEPT ![w] = @ + 1],
                   removed |-> @.removed \ {w}]]
    /\ UNCHANGED <<variant, model, pc, frame, run, assigned>>

\* ScoreViewWidget(parent, model) of the program with controllers
ScoreViewWidget_init == variant = "mvc" /\ LabelView_init("ScoreViewWidget")
\* ScoreUpdateWidget(parent, model) of the program without controllers
ScoreUpdateWidget_init == variant = "noc" /\ LabelView_init("ScoreUpdateWidget")

\* --------------------------------------------------------------- User
\* the three plain setters: self.__firstname = value, and so on
User_firstname_setter(v) ==
    /\ pc = "idle"
    /\ firstname' = v
    /\ op' = [Op("firstname=", "User", v, 0) EXCEPT !.ret = "None"]
    /\ trace' = <<Event("store", "-", "User", <<>>, <<"firstname", v>>)>>
    /\ assigned' = [assigned EXCEPT !.firstname = v]
    /\ UNCHANGED <<variant, views, observers, value, lastname, email, pc, frame, run, subs>>

User_lastname_setter(v) ==
    /\ pc = "idle"
    /\ lastname' = v
    /\ op' = [Op("lastname=", "User", v, 0) EXCEPT !.ret = "None"]
    /\ trace' = <<Event("store", "-", "User", <<>>, <<"lastname", v>>)>>
    /\ assigned' = [assigned EXCEPT !.lastname = v]
    /\ UNCHANGED <<variant, views, observers, value, firstname, email, pc, frame, run, subs>>

\* an email setter that notifies as the Score setter does
User_email_setter_notifies(v) ==
    /\ pc = "idle"
    /\ email' = v
    /\ op' = Op("email=", "User", v, 0)
    /\ EnterNotify("User", <<>>,
                   <<Event("store", "-", "User", <<>>, <<"email", v>>)>>,
                   <<firstname, lastname, v>>)
    /\ assigned' = [assigned EXCEPT !.email = v]
    /\ UNCHANGED <<variant, views, observers, value, firstname, lastname, run, subs>>

User_email_setter(v) ==
    /\ pc = "idle"
    /\ email' = v
    /\ op' = [Op("email=", "User", v, 0) EXCEPT !.ret = "None"]
    /\ trace' = <<Event("store", "-", "User", <<>>, <<"email", v>>)>>
    /\ assigned' = [assigned EXCEPT !.email = v]
    /\ UNCHANGED <<variant, views, observers, value, firstname, lastname, pc, frame, run, subs>>

\* reading a property whose attribute no setter has created raises AttributeError
Readable(f, l, e) == f # Unset /\ l # Unset /\ e # Unset

\* User.save() on a model holding f, l, e, as part of the operation o: the
\* f-string reads the three properties, the line is printed, notify_observers()
User_save_body(o, f, l, e) ==
    IF Readable(f, l, e)
    THEN /\ EnterNotify("User", <<>>,
                        <<Event("print", "-", "User", <<>>, <<f, l, e>>)>>,
                        <<f, l, e>>)
         /\ op' = o
    ELSE /\ trace' = <<>>
         /\ op' = [o EXCEPT !.raised = "AttributeError", !.ret = "raise"]
         /\ UNCHANGED <<pc, frame>>

\* user.save(), called by a client of the model
User_save ==
    /\ pc = "idle"
    /\ User_save_body(Op("save", "User", <<>>, 0), firstname, lastname, email)
    /\ UNCHANGED <<variant, views, observers, model, run, subs, assigned>>

\* the three assignments of UserController.save / on_save_button_clicked,
\* as the fields they leave in the model
\* a save that forgets self.model.email = email
SavedFields_stale_email(f, l, e) == [firstname |-> f, lastname |-> l, email |-> email]

SavedFields(f, l, e) == [firstname |-> f, lastname |-> l, email |-> e]

SaveFields(name, f, l, e) ==
    LET w == SavedFields(f, l, e)
    IN  /\ pc = "idle"
        /\ firstname' = w.firstname
        /\ lastname' = w.lastname
        /\ email' = w.email
        /\ assigned' = [firstname |-> f, lastname |-> l, email |-> e]
        /\ User_save_body(Op(name, "User", <<f, l, e>>, 0),
                          w.firstname, w.lastname, w.email)
        /\ UNCHANGED <<variant, views, observers, value, run, subs>>

\* the save handler of the program without controllers, called name in the
\* history: the widget assigns the three entries itself, then self.model.save()
WidgetSaveFields(name, f, l, e) ==
    /\ pc = "idle"
    /\ firstname' = f
    /\ lastname' = l
    /\ email' = e
    /\ assigned' = [firstname |-> f, lastname |-> l, email |-> e]
    /\ User_save_body(Op(name, "User", <<f, l, e>>, 0), f, l, e)
    /\ UNCHANGED <<variant, views, observers, value, run, subs>>

\* UserEditWidget.on_save_button_clicked -> UserController.save(f, l, e)
UserController_save(f, l, e) ==
    variant = "mvc" /\ SaveFields("UserController.save", f, l, e)

\* UserEditWidget.on_save_button_clicked of the program without controllers
UserEditWidget_on_save_button_clicked(f, l, e) ==
    variant = "noc" /\ WidgetSaveFields("on_save_button_clicked", f, l, e)

\* ------------------------------------------------------ specifications
\* the Score model, its observers and everything that mutates it
NextScore ==
    \/ \E c \in Callbacks : Subscribe("Score", c)
    \/ \E c \in Callbacks : Unsubscribe("Score", c)
    \/ \E a \in ArgLists : NotifyObservers("Score", a)
    \/ \E n \in Assignable : AssignValue(n)
    \/ ScoreController_increment
    \/ ScoreController_decrement
    \/ ScoreUpdateWidget_increment
    \/ ScoreUpdateWidget_decrement
    \/ \E t \in Texts : on_score_entry_changed(t)
    \/ NotifyStep
    \/ NotifyReturn

\* the User model, its observers and everything that mutates it
NextUser ==
    \/ \E c \in Callbacks : Subscribe("User", c)
    \/ \E c \in Callbacks : Unsubscribe("User", c)
    \/ \E a \in ArgLists : NotifyObservers("User", a)
    \/ \E v \in Strings : User_firstname_setter(v)
    \/ \E v \in Strings : User_lastname_setter(v)
    \/ \E v \in Strings : User_email_setter(v)
    \/ User_save
    \/ \E f, l, e \in Strings : UserController_save(f, l, e)
    \/ \E f, l, e \in Strings : UserEditWidget_on_save_button_clicked(f, l, e)
    \/ NotifyStep
    \/ NotifyReturn

\* the Observable base class alone, exercised on a subject whose own
\* operations are not called
NextObservable ==
    \/ \E c \in Callbacks : SubscribeUpTo("User", c, MaxEntries)
    \/ \E c \in Callbacks : Unsubscribe("User", c)
    \/ \E a \in ArgLists : NotifyObservers("User", a)
    \/ NotifyStep
    \/ NotifyReturn

\* a subject nobody has touched since App.__init__ built it
Untouched(self) ==
    /\ observers[self] = <<>>
    /\ subs[self] = NoSubs
    /\ IF self = "Score"
       THEN value = PyInt(SeedValue) /\ run = Seeded(SeedValue)
       ELSE /\ firstname = Unset /\ lastname = Unset /\ email = Unset
            /\ assigned = [firstname |-> Unset, lastname |-> Unset, email |-> Unset]

\* one window of the application: the operations of one model, started
\* while the other model is as App.__init__ built it
NextApp ==
    \/ Untouched("User") /\ NextScore
    \/ Untouched("Score") /\ NextUser

\* the running application: its widgets subscribe, then the user acts on
\* one window through the handlers of the program that runs
NextHandlers ==
    \/ /\ Untouched("User")
       /\ \/ \E c \in Callbacks : Subscribe("Score", c)
          \/ ScoreController_increment
          \/ ScoreController_decrement
          \/ ScoreUpdateWidget_increment
          \/ ScoreUpdateWidget_decrement
          \/ \E t \in Texts : on_score_entry_changed(t)
    \/ /\ Untouched("Score")
       /\ \/ \E c \in Callbacks : Subscribe("User", c)
          \/ \E f, l, e \in Strings : UserController_save(f, l, e)
          \/ \E f, l, e \in Strings : UserEditWidget_on_save_button_clicked(f, l, e)
    \/ NotifyStep
    \/ NotifyReturn

\* the score window: its label widget and other subscribers are built,
\* and the user acts through the handlers of the program that runs
NextViews ==
    \/ ScoreViewWidget_init
    \/ ScoreUpdateWidget_init
    \/ \E c \in Callbacks : Subscribe("Score", c)
    \/ ScoreController_increment
    \/ ScoreController_decrement
    \/ ScoreUpdateWidget_increment
    \/ ScoreUpdateWidget_decrement
    \/ \E t \in Texts : on_score_entry_changed(t)
    \/ NotifyStep
    \/ NotifyReturn

\* a subject whose clients subscribe callbacks, some of which call back into
\* it, and then run notification cycles
NextReentrant ==
    \/ /\ op.name \in {"__init__", "subscribe"}
       /\ \E c \in Callbacks \cup {"Once", "Ping"} : SubscribeUpTo("Score", c, MaxEntries)
    \/ \E a \in ArgLists : NotifyObservers("Score", a)
    \/ NotifyStep
    \/ NotifyReturn

\* the two models share no state: each is checked with its own operations
Next == NextScore \/ NextUser

SpecScore == Init /\ [][NextScore]_vars
SpecUser == Init /\ [][NextUser]_vars
SpecObservable == Init /\ [][NextObservable]_vars
SpecHandlers == Init /\ [][NextHandlers]_vars
SpecViews == Init /\ [][NextViews]_vars
\* the loop runs on: a callback that was called returns, and the for
\* statement takes its next iteration or ends
SpecReentrant ==
    Init /\ [][NextReentrant]_vars /\ WF_vars(NotifyStep) /\ WF_vars(NotifyReturn)
SpecApp == Init /\ [][NextApp]_vars
Spec == Init /\ [][Next]_vars

\* ------------------------------------------------ reading the history
IsCall(e) == e.ev = "call"
IsNotify(e) == e.ev = "notify"
IsStore(e) == e.ev = "store"
IsPrint(e) == e.ev = "print"

\* the observer invocations of the operation last started, in order
Calls == SelectSeq(trace, IsCall)
\* the observers invoked, in order
Callees == [i \in 1..Len(Calls) |-> Calls[i].observer]
\* how many times that operation has entered notify_observers
Cycles == Len(SelectSeq(trace, IsNotify))
\* the operation has returned to its caller
Returned == pc = "idle"

\* ------------------------------------------------------------- claims
\* C1: after subscribe(cb1), ..., subscribe(cbn) on a fresh subject and one
\* notify_observers(args), the invocations are exactly cb1, ..., cbn in that
\* order, each with the subject first and then args.
C1_NotifyInSubscriptionOrder ==
    \A s \in Subjects :
        (Returned /\ op.name = "notify_observers" /\ op.self = s /\ subs[s].only)
        => Calls = [i \in 1..Len(subs[s].seq) |->
                      Event("call", subs[s].seq[i], s, op.arg,
                            Seen(s, value, firstname, lastname, email))]

C1_Witness ==
    /\ Returned /\ op.name = "notify_observers" /\ op.self = "Score"
    /\ op.arg = <<"x">>
    /\ subs["Score"].only /\ subs["Score"].seq = <<"B", "A">>
    /\ Len(Calls) = 2

\* C2: after score.value = n the property reads n, and the assignment has run
\* exactly one notification cycle that called every subscriber entry once,
\* also when n is the value already stored.
C2_AssignStoresAndNotifiesOnce ==
    (Returned /\ op.name = "value=")
    => /\ Score_value = PyInt(op.arg)
       /\ Cycles = 1
       /\ Callees = observers["Score"]

C2_Witness ==
    /\ Returned /\ op.name = "value=" /\ op.pre = TRUE
    /\ Len(observers["Score"]) = 2 /\ Len(Calls) = 2

\* C3: increment leaves v+1 and decrement v-1, each with exactly one
\* notification cycle; after i increments and d decrements from seed s the
\* value is s+i-d and i+d cycles have run.
C3_IncrementDecrement ==
    /\ (Returned /\ op.name = "increment")
       => (value = PyInt(op.pre + 1) /\ Cycles = 1 /\ Callees = observers["Score"])
    /\ (Returned /\ op.name = "decrement")
       => (value = PyInt(op.pre - 1) /\ Cycles = 1 /\ Callees = observers["Score"])
    /\ Returned
       => /\ value = PyInt(run.seed + run.incs - run.decs)
          /\ run.cycles = run.incs + run.decs

C3_Witness ==
    /\ Returned /\ op.name = "decrement"
    /\ run.incs >= 1 /\ run.decs >= 1 /\ run.cycles >= 2
    /\ Len(Calls) >= 1

\* the operations that write the three fields and then call save()
SaveOps == {"UserController.save", "on_save_button_clicked"}
\* the fields of the User model, and the values last handed to its setters
Fields == <<firstname, lastname, email>>
Assigned == <<assigned.firstname, assigned.lastname, assigned.email>>
\* every field has been assigned at least once
AllAssigned == \A i \in 1..3 : Assigned[i] # Unset

\* C4: assigning firstname, lastname or email invokes no observer; save() on
\* a User whose fields have been assigned runs exactly one notification cycle,
\* and during and after it the accessors return the values assigned last.
C4_SettersSilentSaveNotifies ==
    /\ op.name \in {"firstname=", "lastname=", "email="}
       => (Returned /\ Calls = <<>> /\ Cycles = 0)
    /\ (op.name = "save" /\ AllAssigned)
       => /\ op.raised = "none"
          /\ Fields = Assigned
          /\ \A i \in 1..Len(Calls) : Calls[i].seen = Assigned
          /\ Returned => (Cycles = 1 /\ Callees = observers["User"])

C4_Witness ==
    /\ Returned /\ op.name = "save" /\ AllAssigned
    /\ Fields = <<"b", "a", "b">>
    /\ Len(observers["User"]) = 2 /\ Len(Calls) = 2

\* C5 as stated: a callback whose unsubscribe has returned successfully, and
\* that has not been subscribed since, is invoked by no later cycle.
C5_Original ==
    \A i \in 1..Len(Calls) :
        Calls[i].observer \notin subs[Calls[i].subject].removed

\* C5 as amended: such a callback is invoked by no later cycle once it has
\* been unsubscribed as often as it was subscribed (no entry of it is left).
C5_UnsubscribedNotNotified ==
    \A i \in 1..Len(Calls) :
        LET h == subs[Calls[i].subject]
        IN  Calls[i].observer \in h.removed => h.balance[Calls[i].observer] > 0

\* subscribe(A), value = 7, unsubscribe(A), value = 8, with B still subscribed
C5_Witness ==
    /\ Returned /\ op.name = "value=" /\ op.arg = 8
    /\ "A" \in subs["Score"].removed /\ subs["Score"].balance["A"] = 0
    /\ Callees = <<"B">>

\* C6: unsubscribe of a callback that is not in the sequence raises ValueError
\* and leaves the sequence and the model fields as they were.
C6_UnsubscribeMissingRaises ==
    (op.name = "unsubscribe"
       /\ \A i \in 1..Len(op.pre.observers) : op.pre.observers[i] # op.arg)
    => /\ op.raised = "ValueError"
       /\ observers[op.self] = op.pre.observers
       /\ model = op.pre.model
       /\ Returned /\ Calls = <<>>

\* the second of two unsubscribe(A) in a row, B being subscribed
C6_Witness ==
    /\ op.name = "unsubscribe" /\ op.arg = "A" /\ op.raised = "ValueError"
    /\ "A" \in subs["Score"].removed
    /\ observers["Score"] = <<"B">>

\* C7: every call of User.save() completes and runs exactly one notification
\* cycle, whatever the state of the model.
C7_SaveAlwaysNotifies ==
    op.name \in {"save"} \cup SaveOps
    => /\ op.raised = "none"
       /\ Returned => (Cycles = 1 /\ Callees = observers["User"])

\* C8: whenever an observer runs in a save(f, l, e) of the controller (or of
\* the edit widget), the three fields are that call's arguments.
C8_NoPartialUpdate ==
    op.name \in SaveOps
    => /\ op.raised = "none"
       /\ Fields = op.arg
       /\ \A i \in 1..Len(Calls) : Calls[i].seen = op.arg
       /\ Returned => (Cycles = 1 /\ Callees = observers["User"])

\* an observer is running in a save whose arguments differ from one another
C8_Witness ==
    /\ pc = "notify" /\ frame.i = 1 /\ Len(Calls) = 1
    /\ op.name \in SaveOps /\ op.arg = <<"b", "a", "b">>
    /\ Len(observers["User"]) = 2

C10_FocusOut ==
    op.name = "on_score_entry_changed"
    => LET r == int(op.arg)
       IN  IF r.raised = "none"
           THEN /\ value = r.val
                /\ Returned => /\ op.ret = "True"
                               /\ Cycles = 1
                               /\ Callees = observers["Score"]
           ELSE /\ Returned /\ op.ret = "True" /\ op.raised = "none"
                /\ value = op.pre
                /\ SelectSeq(trace, IsStore) = <<>>
                /\ Calls = <<>> /\ Cycles = 0

C10_Witness ==
    /\ Returned /\ op.name = "on_score_entry_changed"
    /\ op.arg = <<"a", "b", "c">> /\ op.ret = "True"
    /\ value = PyInt(8) /\ Len(observers["Score"]) = 2

\* C11: unsubscribe(cb) on a sequence that contains cb deletes exactly its
\* first occurrence; every other entry, later occurrences of cb included,
\* stays in its original relative order, and the length drops by one.
C11_RemovesFirstOccurrence ==
    (op.name = "unsubscribe"
       /\ \E i \in 1..Len(op.pre.observers) : op.pre.observers[i] = op.arg)
    => LET before == op.pre.observers
           now == observers[op.self]
       IN  /\ op.raised = "none"
           /\ Len(now) = Len(before) - 1
           /\ \E k \in 1..Len(before) :
                 /\ before[k] = op.arg
                 /\ \A j \in 1..(k - 1) : before[j] # op.arg
                 /\ now = [i \in 1..(Len(before) - 1) |->
                             IF i < k THEN before[i] ELSE before[i + 1]]

\* unsubscribe(A) on A, B, A leaves B, A
C11_Witness ==
    /\ op.name = "unsubscribe" /\ op.arg = "A"
    /\ op.pre.observers = <<"A", "B", "A">>
    /\ observers["User"] = <<"B", "A">>

\* how many entries of a sequence are the callback c
Count(seq, c) == Len(SelectSeq(seq, LAMBDA x : x = c))

\* C12: subscribe always appends one entry and never fails, also for a
\* callback that is already subscribed, so a callback has as many entries as
\* it was subscribed (less those unsubscribed), and a following cycle invokes
\* it once per entry.
C12_SubscribeNeverDeduplicates ==
    /\ op.name = "subscribe"
       => (op.raised = "none" /\ observers[op.self] = Append(op.pre, op.arg))
    /\ \A s \in Subjects, c \in Callbacks :
          /\ Count(observers[s], c) = subs[s].balance[c]
          /\ (Returned /\ op.name = "notify_observers" /\ op.self = s)
             => Count(Callees, c) = subs[s].balance[c]

\* subscribe(A) three times, then one cycle: three invocations of A
C12_Witness ==
    /\ Returned /\ op.name = "notify_observers"
    /\ subs["User"].only /\ subs["User"].seq = <<"A", "A", "A">>
    /\ Callees = <<"A", "A", "A">>

\* C13: the program with controllers and the program without are the same
\* transition system on the core: from every reachable state, each user
\* action (increment, decrement, focus-out with text t, save of f, l, e) is
\* a step of one program's handler exactly when it is a step of the other's,
\* so both go through the same model states and notification cycles.  A
\* handler records its name and arguments in op, so a step can be a step of
\* a handler only for the arguments it recorded.
C13_VariantsAgree ==
    [][ /\ Increment <=> WidgetIncrement
        /\ Decrement <=> WidgetDecrement
        /\ op'.name = "on_score_entry_changed"
             => (on_score_entry_changed_of("mvc", op'.arg)
                   <=> on_score_entry_changed_of("noc", op'.arg))
        /\ op'.name \in SaveOps
             => (SaveFields(op'.name, op'.arg[1], op'.arg[2], op'.arg[3])
                   <=> WidgetSaveFields(op'.name, op'.arg[1], op'.arg[2], op'.arg[3])) ]_vars

C13_Witness ==
    /\ variant = "noc"
    /\ Returned
    /\ op.name = "on_score_entry_changed"
    /\ op.arg = <<"-", "4">>
    /\ Score_value = PyInt(0 - 4)
    /\ Callees = <<"A", "B">>

\* C14: the subscriber sequence of a subject is empty right after
\* construction and changes only in a subscribe or unsubscribe on that
\* subject: every step of any other operation (value assignment, increment,
\* decrement, focus-out, field assignment, save, notify_observers and the
\* iterations of its loop) leaves every sequence as it was.
C14_OnlySubscribeChangesObservers ==
    [][ /\ op.name = "__init__" => \A s \in Subjects : observers[s] = <<>>
        /\ \A s \in Subjects :
              observers'[s] # observers[s]
              => (pc = "idle" /\ op'.name \in {"subscribe", "unsubscribe"} /\ op'.self = s)
        /\ op'.name \notin {"subscribe", "unsubscribe"} => observers' = observers ]_vars

C14_Witness ==
    /\ Returned
    /\ op.name = "increment"
    /\ subs["Score"].only
    /\ subs["Score"].seq = <<"A", "B">>
    /\ Callees = <<"A", "B">>
    /\ observers["Score"] = <<"A", "B">>

\* the operations that assign Score.value
ScoreAssignments == {"__init__", "value=", "increment", "decrement", "on_score_entry_changed"}

\* C15: an operation that assigns Score.value first stores the value, then
\* prints the log line, then enters notify_observers, and every observer
\* invoked sees the new value; a save that completes prints the three
\* fields and then enters notify_observers; in every operation that logs,
\* an observer invocation comes after the log line.
C15_StoreThenLogThenNotify ==
    /\ (op.name \in ScoreAssignments /\ trace # <<>>)
         => /\ Len(trace) >= 3
            /\ IsStore(trace[1]) /\ trace[1].seen = <<Score_value>>
            /\ IsPrint(trace[2]) /\ trace[2].seen = <<Score_value>>
            /\ IsNotify(trace[3])
            /\ \A i \in 4..Len(trace) :
                  IsCall(trace[i]) /\ trace[i].seen = <<Score_value>>
    /\ (op.name \in SaveOps \cup {"save"} /\ op.raised = "none")
         => /\ Len(trace) >= 2
            /\ IsPrint(trace[1]) /\ trace[1].seen = Fields
            /\ IsNotify(trace[2])
            /\ \A i \in 3..Len(trace) : IsCall(trace[i]) /\ trace[i].seen = Fields
    /\ op.name # "notify_observers"
         => \A i \in 1..Len(trace) :
               IsCall(trace[i]) => \E j \in 1..(i - 1) : IsPrint(trace[j])

C15_Witness ==
    /\ Returned
    /\ op.name = "value="
    /\ op.arg = 7
    /\ Len(trace) = 5
    /\ IsStore(trace[1]) /\ IsPrint(trace[2]) /\ IsNotify(trace[3])
    /\ IsCall(trace[4]) /\ trace[4].seen = <<PyInt(7)>>
    /\ IsCall(trace[5]) /\ trace[5].seen = <<PyInt(7)>>

\* C16: whenever no operation is in progress, every score label widget that
\* has been built (and so subscribed in its constructor) shows str(value)
\* of the Score model.
C16_LabelsShowValue ==
    Returned => \A w \in LabelViews : views[w].built => views[w].text = str(Score_value)

C16_Witness ==
    /\ Returned
    /\ op.name = "on_score_entry_changed"
    /\ op.arg = <<"-", "4">>
    /\ observers["Score"] = <<"A", "ScoreViewWidget">>
    /\ Callees = <<"A", "ScoreViewWidget">>
    /\ views["ScoreViewWidget"] = [built |-> TRUE, text |-> <<"-", "4">>]

\* a callback called unsubscribe on its subject during the operation last started
UnsubscribedInCycle == \E i \in 1..Len(trace) : trace[i].ev = "unsubscribe"

\* C17: when a callback has called unsubscribe on its own subject during a
\* notification cycle, every callback that had one entry in the subscriber
\* sequence at the start of the cycle and still has it at the end was
\* invoked exactly once in that cycle.
C17_NoSubscriberSkipped ==
    (Returned /\ op.name = "notify_observers" /\ UnsubscribedInCycle)
    => \A c \in Observers :
          (Count(op.pre, c) = 1 /\ Count(observers[op.self], c) = 1)
          => Count(Callees, c) = 1

\* C18: every notification cycle that has started returns.
C18_CycleTerminates == (pc = "notify") ~> (pc = "idle")

====
